---- MODULE Spec2Model ----
(***************************************************************************)
(* The csv_editor spreadsheet: the sparse grid (Spreadsheet), the two cell *)
(* evolution rules (iterate_function_v1, iterate_function_v2) and the      *)
(* key-down handler of App that drives them.                               *)
(*                                                                         *)
(* A Python str is a sequence of one-character strings, so that "in",      *)
(* split and int are computed on the characters.  None is the one-element  *)
(* sequence <<"None">>, which is the text of no str.                       *)
(***************************************************************************)
EXTENDS Integers, Sequences, FiniteSets, TLC

VARIABLES
    data,                \* Spreadsheet.data
    cursor,              \* Spreadsheet.cursor
    mark,                \* Spreadsheet.mark
    toggle_input_box,    \* App.toggle_input_box
    input_box_contents,  \* App.input_box_contents
    raised,              \* an exception left the event loop
    steps,               \* the operations handled so far
    last,                \* the operation handled last and the state before it
    res,                 \* what the last direct call returned
    written,             \* the cells that ever held a value
    heap                 \* the Cell objects and who refers to which (SpecCopy;
                         \* elsewhere cursor and mark are followed by value)

vars == <<data, cursor, mark, toggle_input_box, input_box_contents,
          raised, steps, last, res, written, heap>>

\* ------------------------------------------------------------- bounds
\* The grid edge kept by App (max_row = max_col = 100 in the source), reduced.
MaxRow == 2
MaxCol == 2
\* The key-down events of one run, and the characters of one pending entry.
MaxKeys == 7
MaxBuf == 2
\* The direct calls on one Spreadsheet.
MaxOps == 3
\* The last column of the selections drawn for get_selected_cells, and the
\* characters of the raw values drawn for the decoders.
MaxSelCol == 5
MaxRaw == 5
\* The pieces of one formatting text drawn for the colour patterns.
MaxTokens == 3
\* The Cell objects made in one run of calls on cursor and mark.
MaxObjs == 5
\* The generations of one run of Variant A.
MaxGens == 2

\* ------------------------------------------------------------- Python
None == <<"None">>

Digits == {"0", "1", "2", "3", "4", "5", "6", "7", "8", "9"}

DigitVal(c) ==
    CASE c = "0" -> 0 [] c = "1" -> 1 [] c = "2" -> 2 [] c = "3" -> 3
      [] c = "4" -> 4 [] c = "5" -> 5 [] c = "6" -> 6 [] c = "7" -> 7
      [] c = "8" -> 8 [] c = "9" -> 9

SetMin(S) == CHOOSE x \in S : \A y \in S : x <= y
SetMax(S) == CHOOSE x \in S : \A y \in S : x >= y

\* sub in s, for Python strings
PyIn(sub, s) ==
    \E i \in 0..(Len(s) - Len(sub)) :
        \A j \in 1..Len(sub) : s[i + j] = sub[j]

\* s.index(sub): the 0-based place of the first occurrence
PyIndex(sub, s) ==
    SetMin({i \in 0..(Len(s) - Len(sub)) :
                \A j \in 1..Len(sub) : s[i + j] = sub[j]})

\* s.split("??"): the pieces between the non-overlapping occurrences of the
\* separator, found left to right
RECURSIVE PySplit(_)
PySplit(s) ==
    IF ~PyIn(<<"?", "?">>, s)
    THEN <<s>>
    ELSE LET i == PyIndex(<<"?", "?">>, s)
         IN  <<SubSeq(s, 1, i)>> \o PySplit(SubSeq(s, i + 3, Len(s)))

\* s.strip() for the one whitespace character of the model, the space
PyStrip(s) ==
    LET keep == {i \in 1..Len(s) : s[i] # " "}
    IN  IF keep = {} THEN <<>> ELSE SubSeq(s, SetMin(keep), SetMax(keep))

RECURSIVE DigitsVal(_)
DigitsVal(t) ==
    IF t = <<>> THEN 0
    ELSE IF t[Len(t)] = "_" THEN DigitsVal(SubSeq(t, 1, Len(t) - 1))
    ELSE 10 * DigitsVal(SubSeq(t, 1, Len(t) - 1)) + DigitVal(t[Len(t)])

\* int(s): surrounding whitespace, an optional sign, decimal digits with single
\* underscores between them; anything else raises ValueError
PyInt(s) ==
    LET t    == PyStrip(s)
        neg  == t # <<>> /\ t[1] = "-"
        sgn  == t # <<>> /\ t[1] \in {"+", "-"}
        body == IF sgn THEN SubSeq(t, 2, Len(t)) ELSE t
        ok   == /\ body # <<>>
                /\ \A i \in 1..Len(body) : body[i] \in Digits \cup {"_"}
                /\ body[1] # "_"
                /\ body[Len(body)] # "_"
                /\ \A i \in 1..(Len(body) - 1) :
                       ~(body[i] = "_" /\ body[i + 1] = "_")
    IN  IF ok
        THEN [raised |-> FALSE,
              val |-> IF neg THEN 0 - DigitsVal(body) ELSE DigitsVal(body)]
        ELSE [raised |-> TRUE, val |-> 0]

\* ------------------------------------------------------------- Cell
Cell(row, col) == [row |-> row, col |-> col]

\* The Cell objects by identity: cells gives the fields of each object made so
\* far, cursor and mark are the objects self.cursor and self.mark refer to, and
\* held are the objects the caller of the Spreadsheet refers to.
\* Spreadsheet.__init__ makes two objects, Cell(0, 0) and Cell(0, 0).
InitHeap ==
    [cells |-> <<Cell(0, 0), Cell(0, 0)>>, cursor |-> 1, mark |-> 2, held |-> {}]

\* Cell(row, col): a new object, and the reference to it.
new_cell(h, row, col) ==
    [cells |-> Append(h.cells, Cell(row, col)), ref |-> Len(h.cells) + 1]

\* A copy that hands back the object it was asked to copy.
copy_same_object(h, a) == [cells |-> h.cells, ref |-> a]

\* Cell.copy: "return Cell(self.row, self.col)"
copy(h, a) == new_cell(h, h.cells[a].row, h.cells[a].col)

\* ------------------------------------------------------------- Spreadsheet
\* self.data: a dict of row -> dict of col -> str
EmptyData == <<>>

\* The cells data holds a value for.
Stored(d) == UNION {{Cell(r, c) : c \in DOMAIN d[r]} : r \in DOMAIN d}

get(d, cell) ==
    IF cell.row \notin DOMAIN d \/ cell.col \notin DOMAIN d[cell.row]
    THEN None
    ELSE d[cell.row][cell.col]

\* A clearing that drops the whole row bucket of the cell.
set_drops_bucket(d, cell, val) ==
    IF val # None
    THEN LET bucket == IF cell.row \in DOMAIN d THEN d[cell.row] ELSE <<>>
             nb == [c \in DOMAIN bucket \cup {cell.col} |->
                       IF c = cell.col THEN val ELSE bucket[c]]
         IN  [r \in DOMAIN d \cup {cell.row} |->
                 IF r = cell.row THEN nb ELSE d[r]]
    ELSE IF cell.row \in DOMAIN d /\ cell.col \in DOMAIN d[cell.row]
    THEN [r \in DOMAIN d \ {cell.row} |-> d[r]]
    ELSE d

\* A clearing that overwrites the entry with None and keeps it.
set_keeps_marker(d, cell, val) ==
    IF val # None
    THEN LET bucket == IF cell.row \in DOMAIN d THEN d[cell.row] ELSE <<>>
             nb == [c \in DOMAIN bucket \cup {cell.col} |->
                       IF c = cell.col THEN val ELSE bucket[c]]
         IN  [r \in DOMAIN d \cup {cell.row} |->
                 IF r = cell.row THEN nb ELSE d[r]]
    ELSE IF cell.row \in DOMAIN d /\ cell.col \in DOMAIN d[cell.row]
    THEN [d EXCEPT ![cell.row][cell.col] = None]
    ELSE d

\* A set that replaces the row bucket instead of updating it.
set_new_bucket(d, cell, val) ==
    IF val # None
    THEN [r \in DOMAIN d \cup {cell.row} |->
             IF r = cell.row THEN [c \in {cell.col} |-> val] ELSE d[r]]
    ELSE IF cell.row \in DOMAIN d /\ cell.col \in DOMAIN d[cell.row]
    THEN [d EXCEPT ![cell.row] =
             [c \in DOMAIN d[cell.row] \ {cell.col} |-> d[cell.row][c]]]
    ELSE d

set(d, cell, val) ==
    IF val # None
    THEN LET bucket == IF cell.row \in DOMAIN d THEN d[cell.row] ELSE <<>>
             nb == [c \in DOMAIN bucket \cup {cell.col} |->
                       IF c = cell.col THEN val ELSE bucket[c]]
         IN  [r \in DOMAIN d \cup {cell.row} |->
                 IF r = cell.row THEN nb ELSE d[r]]
    ELSE IF cell.row \in DOMAIN d /\ cell.col \in DOMAIN d[cell.row]
    THEN [d EXCEPT ![cell.row] =
             [c \in DOMAIN d[cell.row] \ {cell.col} |-> d[cell.row][c]]]
    ELSE d

delete(d, cell) == set(d, cell, None)

\* A bbox_max whose column is taken with min, as bbox_min's is.
get_bounding_box_min_col_twice(cur, mk) ==
    <<Cell(IF cur.row <= mk.row THEN cur.row ELSE mk.row,
           IF cur.col <= mk.col THEN cur.col ELSE mk.col),
      Cell(IF cur.row >= mk.row THEN cur.row ELSE mk.row,
           IF cur.col <= mk.col THEN cur.col ELSE mk.col)>>

\* <<bbox_min, bbox_max>>
get_bounding_box(cur, mk) ==
    <<Cell(IF cur.row <= mk.row THEN cur.row ELSE mk.row,
           IF cur.col <= mk.col THEN cur.col ELSE mk.col),
      Cell(IF cur.row >= mk.row THEN cur.row ELSE mk.row,
           IF cur.col >= mk.col THEN cur.col ELSE mk.col)>>

\* A row test that lets every row of the box through.
row_is_read_always(d, row, include_empty) == TRUE

\* "if include_empty or row in self.data": the columns of the row are looped over.
row_is_read(d, row, include_empty) == include_empty \/ row \in DOMAIN d

\* A selection listed column by column.
get_selected_cells_by_column(d, cur, mk, include_empty) ==
    LET bbox_min == get_bounding_box(cur, mk)[1]
        bbox_max == get_bounding_box(cur, mk)[2]
        w == bbox_max.col - bbox_min.col + 1
        h == bbox_max.row - bbox_min.row + 1
        box == [k \in 1..(h * w) |->
                   Cell(bbox_min.row + ((k - 1) % h), bbox_min.col + ((k - 1) \div h))]
        kept(cell) == /\ row_is_read(d, cell.row, include_empty)
                      /\ (include_empty \/ cell.col \in DOMAIN d[cell.row])
    IN  SelectSeq(box, kept)

\* The two nested range loops, rows outside and columns inside.
get_selected_cells(d, cur, mk, include_empty) ==
    LET bbox_min == get_bounding_box(cur, mk)[1]
        bbox_max == get_bounding_box(cur, mk)[2]
        w == bbox_max.col - bbox_min.col + 1
        h == bbox_max.row - bbox_min.row + 1
        box == [k \in 1..(h * w) |->
                   Cell(bbox_min.row + ((k - 1) \div w), bbox_min.col + ((k - 1) % w))]
        kept(cell) == /\ row_is_read(d, cell.row, include_empty)
                      /\ (include_empty \/ cell.col \in DOMAIN d[cell.row])
    IN  SelectSeq(box, kept)

\* "col in self.data[row]" raises KeyError when it is evaluated for a row that
\* is no key of data: a row the row test let through, with include_empty false.
get_selected_cells_raises(d, cur, mk, include_empty) ==
    LET bbox_min == get_bounding_box(cur, mk)[1]
        bbox_max == get_bounding_box(cur, mk)[2]
    IN  \E row \in bbox_min.row..bbox_max.row :
            /\ row_is_read(d, row, include_empty)
            /\ bbox_min.col <= bbox_max.col
            /\ ~include_empty
            /\ row \notin DOMAIN d

\* A call of get_selected_cells: the list it returns, or the exception.
Selected(cells) == [cells |-> cells, raised |-> FALSE]
SelectRaised == [cells |-> <<>>, raised |-> TRUE]

get_selected_cells_call(d, cur, mk, include_empty) ==
    IF get_selected_cells_raises(d, cur, mk, include_empty)
    THEN SelectRaised
    ELSE Selected(get_selected_cells(d, cur, mk, include_empty))

\* ------------------------------------------------------------- the rules
\* "bg(0,0,0);fg(0,0,0)??1"
LiveTag ==
    <<"b", "g", "(", "0", ",", "0", ",", "0", ")", ";",
      "f", "g", "(", "0", ",", "0", ",", "0", ")", "?", "?", "1">>

\* "bg(255,255,255);fg(255,255,255)??0"
DeadTag ==
    <<"b", "g", "(", "2", "5", "5", ",", "2", "5", "5", ",", "2", "5", "5", ")", ";",
      "f", "g", "(", "2", "5", "5", ",", "2", "5", "5", ",", "2", "5", "5", ")",
      "?", "?", "0">>

\* What a rule hands back: (cell, val), or the exception it raised.
Returned(cell, val) == [cell |-> cell, val |-> val, raised |-> FALSE]
Raised(cell) == [cell |-> cell, val |-> None, raised |-> TRUE]

\* ---- iterate_function_v2 (Variant B)
\* A dead outcome kept in storage as the text "0".
v2_colorize_stores_dead(cell_val) ==
    IF cell_val = <<"0">> THEN <<"0">> ELSE LiveTag

v2_colorize(cell_val) ==
    IF cell_val = <<"0">> THEN None ELSE LiveTag

\* A decoding that reads every text that is no number as 0.
v2_get_content_lenient(cell_val) ==
    IF cell_val # None /\ PyIn(<<"?", "?">>, cell_val)
    THEN [raised |-> FALSE, val |-> PyInt(PySplit(cell_val)[2]).val]
    ELSE IF cell_val # None
    THEN [raised |-> FALSE, val |-> PyInt(cell_val).val]
    ELSE [raised |-> FALSE, val |-> 0]

v2_get_content(cell_val) ==
    IF cell_val # None /\ PyIn(<<"?", "?">>, cell_val)
    THEN PyInt(PySplit(cell_val)[2])
    ELSE IF cell_val # None
    THEN PyInt(cell_val)
    ELSE [raised |-> FALSE, val |-> 0]

\* The 8 neighbours in the order the source reads them.
v2_neighbours(cell) ==
    <<Cell(cell.row - 1, cell.col - 1), Cell(cell.row - 1, cell.col),
      Cell(cell.row - 1, cell.col + 1), Cell(cell.row, cell.col - 1),
      Cell(cell.row, cell.col + 1),     Cell(cell.row + 1, cell.col - 1),
      Cell(cell.row + 1, cell.col),     Cell(cell.row + 1, cell.col + 1)>>

\* A live cell that also dies with exactly 3 live neighbours.
v2_dies_at_three(alive_neighbours) ==
    alive_neighbours < 2 \/ alive_neighbours > 2

\* The test under "if current_state == 1": the cell dies.
v2_dies(alive_neighbours) ==
    alive_neighbours < 2 \/ alive_neighbours > 3

\* A birth on 2 live neighbours.
v2_born_at_two(alive_neighbours) == alive_neighbours = 2

\* The test under the else of "if current_state == 1": the cell is born.
v2_born(alive_neighbours) == alive_neighbours = 3

iterate_function_v2(cell, d) ==
    LET current_state == v2_get_content(get(d, cell))
        neighbours == [i \in 1..8 |-> v2_get_content(get(d, v2_neighbours(cell)[i]))]
        alive_neighbours ==
            neighbours[1].val + neighbours[2].val + neighbours[3].val
            + neighbours[4].val + neighbours[5].val + neighbours[6].val
            + neighbours[7].val + neighbours[8].val
    IN  IF current_state.raised \/ \E i \in 1..8 : neighbours[i].raised
        THEN Raised(cell)
        ELSE IF current_state.val = 1
        THEN IF v2_dies(alive_neighbours)
             THEN Returned(cell, v2_colorize(<<"0">>))
             ELSE Returned(cell, v2_colorize(<<"1">>))
        ELSE IF v2_born(alive_neighbours)
             THEN Returned(cell, v2_colorize(<<"1">>))
             ELSE Returned(cell, v2_colorize(<<"0">>))

\* ---- iterate_function_v1 (Variant A)
rule == <<"0", "1", "1", "0", "1", "1", "1", "0">>

v1_colorize(cell_val) ==
    IF cell_val = <<"0">> THEN DeadTag ELSE LiveTag

v1_get_content(cell_val) ==
    IF cell_val # None /\ PyIn(<<"?", "?">>, cell_val)
    THEN PySplit(cell_val)[2]
    ELSE cell_val

\* The keys of val_map.
val_map_keys ==
    {<<"1", "1", "1">>, <<"1", "1", "0">>, <<"1", "0", "1">>, <<"1", "0", "0">>,
     <<"0", "1", "1">>, <<"0", "1", "0">>, <<"0", "0", "1">>, <<"0", "0", "0">>}

\* A table read in the order 000, 001, ..., 111.
val_map_lsb_first(key) ==
    CASE key = <<"1", "1", "1">> -> rule[8]
      [] key = <<"1", "1", "0">> -> rule[7]
      [] key = <<"1", "0", "1">> -> rule[6]
      [] key = <<"1", "0", "0">> -> rule[5]
      [] key = <<"0", "1", "1">> -> rule[4]
      [] key = <<"0", "1", "0">> -> rule[3]
      [] key = <<"0", "0", "1">> -> rule[2]
      [] key = <<"0", "0", "0">> -> rule[1]

val_map(key) ==
    CASE key = <<"1", "1", "1">> -> rule[1]
      [] key = <<"1", "1", "0">> -> rule[2]
      [] key = <<"1", "0", "1">> -> rule[3]
      [] key = <<"1", "0", "0">> -> rule[4]
      [] key = <<"0", "1", "1">> -> rule[5]
      [] key = <<"0", "1", "0">> -> rule[6]
      [] key = <<"0", "0", "1">> -> rule[7]
      [] key = <<"0", "0", "0">> -> rule[8]

v1_count_parents(tl, tc, tr) ==
    (IF tl \in {<<"0">>, <<"1">>} THEN 1 ELSE 0)
    + (IF tc \in {<<"0">>, <<"1">>} THEN 1 ELSE 0)
    + (IF tr \in {<<"0">>, <<"1">>} THEN 1 ELSE 0)

\* An emptiness test by truth value: a stored "" counts as empty.
v1_target_is_falsy(cell_val) == cell_val = None \/ cell_val = <<>>

\* "spreadsheet.get(cell) is None"
v1_target_is_empty(cell_val) == cell_val = None

\* A partial-ancestry test that misses the case of two valid parents.
v1_partial_ancestry_one(count_parents) == count_parents < 2 /\ count_parents > 0

\* "count_parents < 3 and count_parents > 0"
v1_partial_ancestry(count_parents) == count_parents < 3 /\ count_parents > 0

\* A no-ancestry test that never holds.
v1_no_ancestry_never(count_parents) == count_parents < 0

\* "count_parents == 0"
v1_no_ancestry(count_parents) == count_parents = 0

\* An occupied target returned as its decoded content.
v1_occupied_content(cell_val) == v1_get_content(cell_val)

\* "return (cell, spreadsheet.get(cell))"
v1_occupied(cell_val) == cell_val

\* tl+tc+tr raises TypeError on a None parent, val_map[...] KeyError on a key
\* it does not hold.
iterate_function_v1(cell, d) ==
    IF v1_target_is_empty(get(d, cell))
    THEN LET tl == v1_get_content(get(d, Cell(cell.row - 1, cell.col - 1)))
             tc == v1_get_content(get(d, Cell(cell.row - 1, cell.col)))
             tr == v1_get_content(get(d, Cell(cell.row - 1, cell.col + 1)))
             count_parents == v1_count_parents(tl, tc, tr)
         IN  IF v1_partial_ancestry(count_parents)
             THEN Returned(cell, v1_colorize(<<"0">>))
             ELSE IF v1_no_ancestry(count_parents)
             THEN Returned(cell, None)
             ELSE IF None \in {tl, tc, tr}
             THEN Raised(cell)
             ELSE IF (tl \o tc \o tr) \notin val_map_keys
             THEN Raised(cell)
             ELSE Returned(cell, v1_colorize(<<val_map(tl \o tc \o tr)>>))
    ELSE Returned(cell, v1_occupied(get(d, cell)))

\* ------------------------------------------------------------- history
\* The operation handled last, with the state it started from.
NoOp == "none"

Before(op, shift) ==
    [op |-> op, shift |-> shift, data |-> data, cursor |-> cursor, mark |-> mark,
     toggle_input_box |-> toggle_input_box,
     input_box_contents |-> input_box_contents]

\* ------------------------------------------------------------- rule evaluation
\* The cells App can reach: 0..max_row by 0..max_col.
Rows == 0..MaxRow
Cols == 0..MaxCol
Cells == {Cell(r, c) : r \in Rows, c \in Cols}

\* Cell contents a session can hold: typed texts and the tags the rules write.
MultiSep == <<"a", "?", "?", "1", "?", "?", "x">>
OddVals ==
    {<<>>, <<"x">>, <<"0">>, <<"3">>, <<"-", "1">>, <<" ", "1">>,
     <<"f", "?", "?">>, MultiSep, LiveTag, DeadTag}
BaseVals == {None, <<"1">>}
ParentVals == {None, <<"0">>, <<"1">>, <<>>, <<"x">>, MultiSep, LiveTag, DeadTag}
TargetVals == {None, <<>>, <<"1">>, DeadTag}

Offsets == {-1, 0, 1} \X {-1, 0, 1}

\* The contents of the 3 by 3 block around a cell: live or empty everywhere but
\* in one place, or a cell (Variant A's target) under a row of three parents.
Footprints ==
    {[f EXCEPT ![o] = v] :
        f \in [Offsets -> BaseVals], o \in Offsets, v \in OddVals \cup BaseVals}
    \cup
    {[o \in Offsets |->
        IF o[1] = -1 THEN p[o[2]] ELSE IF o = <<0, 0>> THEN t ELSE None] :
        p \in [{-1, 0, 1} -> ParentVals], t \in TargetVals}

\* The sheet that holds footprint f around cell t: what Spreadsheet.set builds
\* from the values that fall on the grid.
SheetAround(t, f) ==
    LET at(r, c) == IF <<r - t.row, c - t.col>> \in Offsets
                    THEN f[<<r - t.row, c - t.col>>] ELSE None
        used == {r \in Rows : \E c \in Cols : at(r, c) # None}
    IN  [r \in used |-> [c \in {c \in Cols : at(r, c) # None} |-> at(r, c)]]

InitRule ==
    /\ \E t \in Cells, f \in Footprints :
          /\ data = SheetAround(t, f)
          /\ res = Returned(t, None)
          /\ cursor = t
    /\ mark = Cell(0, 0)
    /\ toggle_input_box = FALSE
    /\ input_box_contents = <<>>
    /\ raised = FALSE
    /\ steps = 0
    /\ written = Stored(data)
    /\ last = [op |-> NoOp, shift |-> FALSE, data |-> data, cursor |-> cursor,
               mark |-> mark, toggle_input_box |-> FALSE,
               input_box_contents |-> <<>>]
    /\ heap = InitHeap

\* A rule that writes its result into the sheet it reads.
after_rule_in_place(d, r) ==
    IF r.raised THEN d ELSE set(d, r.cell, r.val)

\* The sheet after a rule returned r: the rules call Spreadsheet.get only.
after_rule(d, r) == d

EvalV1 ==
    /\ last.op = NoOp
    /\ res' = iterate_function_v1(res.cell, data)
    /\ data' = after_rule(data, res')
    /\ last' = Before("v1", FALSE)
    /\ written' = written \cup Stored(data')
    /\ UNCHANGED <<cursor, mark, toggle_input_box, input_box_contents, raised, steps>>
    /\ UNCHANGED heap

EvalV2 ==
    /\ last.op = NoOp
    /\ res' = iterate_function_v2(res.cell, data)
    /\ data' = after_rule(data, res')
    /\ last' = Before("v2", FALSE)
    /\ written' = written \cup Stored(data')
    /\ UNCHANGED <<cursor, mark, toggle_input_box, input_box_contents, raised, steps>>
    /\ UNCHANGED heap

NextRule == EvalV1 \/ EvalV2

SpecRule == InitRule /\ [][NextRule]_vars

\* ------------------------------------------------------------- App
\* The unshifted printable keys, space first.  The grave accent, which the
\* lexer of this notation does not take inside a string, is written GRAVE.
VALID_CHARS ==
    <<" ", "GRAVE", "1", "2", "3", "4", "5", "6", "7", "8", "9", "0", "-", "=",
      "q", "w", "e", "r", "t", "y", "u", "i", "o", "p", "[", "]", "\\",
      "a", "s", "d", "f", "g", "h", "j", "k", "l", ";", "'",
      "z", "x", "c", "v", "b", "n", "m", ",", ".", "/">>

\* The shifted character of each key of VALID_CHARS, place by place.
SHIFT_CHARS ==
    <<" ", "~", "!", "@", "#", "$", "%", "^", "&", "*", "(", ")", "_", "+",
      "Q", "W", "E", "R", "T", "Y", "U", "I", "O", "P", "{", "}", "|",
      "A", "S", "D", "F", "G", "H", "J", "K", "L", ":", "\"",
      "Z", "X", "C", "V", "B", "N", "M", "<", ">", "?">>

\* The keys of the model, and pygame.key.name of each.
CharKeys == {"K_1", "K_3"}
Keys ==
    {"K_RETURN", "K_DOWN", "K_UP", "K_RIGHT", "K_LEFT", "K_DELETE", "K_SPACE",
     "K_BACKSPACE"} \cup CharKeys

get_char(key) ==
    CASE key = "K_1" -> <<"1">>
      [] key = "K_3" -> <<"3">>
      [] key = "K_RETURN" -> <<"r", "e", "t", "u", "r", "n">>
      [] key = "K_DOWN" -> <<"d", "o", "w", "n">>
      [] key = "K_UP" -> <<"u", "p">>
      [] key = "K_RIGHT" -> <<"r", "i", "g", "h", "t">>
      [] key = "K_LEFT" -> <<"l", "e", "f", "t">>
      [] key = "K_DELETE" -> <<"d", "e", "l", "e", "t", "e">>
      [] key = "K_SPACE" -> <<"s", "p", "a", "c", "e">>
      [] key = "K_BACKSPACE" -> <<"b", "a", "c", "k", "s", "p", "a", "c", "e">>

\* The state a handler leaves: the sheet, the entry box, and whether it raised.
After(d, cur, mk, toggle, contents, exc) ==
    [data |-> d, cursor |-> cur, mark |-> mk, toggle_input_box |-> toggle,
     input_box_contents |-> contents, raised |-> exc]

\* "for cell, val in result: self.spreadsheet.set(cell, val)"
RECURSIVE apply_result(_, _)
apply_result(d, result) ==
    IF result = <<>> THEN d
    ELSE apply_result(set(d, Head(result).cell, Head(result).val), Tail(result))

\* A step that writes each cell's result before it evaluates the next cell.
RECURSIVE evolve_interleaved(_, _)
evolve_interleaved(d, cells) ==
    IF cells = <<>> THEN [data |-> d, raised |-> FALSE]
    ELSE LET r == iterate_function_v2(Head(cells), d)
         IN  IF r.raised THEN [data |-> d, raised |-> TRUE]
             ELSE evolve_interleaved(set(d, r.cell, r.val), Tail(cells))

key_space_interleaved(d, cur, mk) ==
    evolve_interleaved(d, get_selected_cells(d, cur, mk, TRUE))

\* A step that evaluates every cell on the sheet as it was, and on a rule that
\* raises leaves the results it had so far in the sheet.
RECURSIVE evolve_partial(_, _, _)
evolve_partial(d, snapshot, cells) ==
    IF cells = <<>> THEN [data |-> d, raised |-> FALSE]
    ELSE LET r == iterate_function_v2(Head(cells), snapshot)
         IN  IF r.raised THEN [data |-> d, raised |-> TRUE]
             ELSE evolve_partial(set(d, r.cell, r.val), snapshot, Tail(cells))

key_space_partial(d, cur, mk) ==
    evolve_partial(d, d, get_selected_cells(d, cur, mk, TRUE))

\* A step that evaluates and sets the cells next to the selection too.
key_space_frontier(d, cur, mk) ==
    LET bb == get_bounding_box(cur, mk)
        cells == get_selected_cells(d, Cell(bb[1].row - 1, bb[1].col - 1),
                                    Cell(bb[2].row + 1, bb[2].col + 1), TRUE)
        result == [i \in 1..Len(cells) |-> iterate_function_v2(cells[i], d)]
    IN  IF \E i \in 1..Len(cells) : result[i].raised
        THEN [data |-> d, raised |-> TRUE]
        ELSE [data |-> apply_result(d, result), raised |-> FALSE]

\* The K_SPACE branch: every cell of the selection is evaluated, then every
\* result is set.  A rule that raises ends the handler before any set.
key_space(d, cur, mk) ==
    LET cells == get_selected_cells(d, cur, mk, TRUE)
        result == [i \in 1..Len(cells) |-> iterate_function_v2(cells[i], d)]
    IN  IF \E i \in 1..Len(cells) : result[i].raised
        THEN [data |-> d, raised |-> TRUE]
        ELSE [data |-> apply_result(d, result), raised |-> FALSE]

\* The K_DELETE branch.
RECURSIVE delete_cells(_, _)
delete_cells(d, cells) ==
    IF cells = <<>> THEN d
    ELSE delete_cells(delete(d, Head(cells)), Tail(cells))

\* A delete-selection that clears the cursor's cell only.
key_delete_cursor_only(d, cur, mk) == delete(d, cur)

key_delete(d, cur, mk) ==
    delete_cells(d, get_selected_cells(d, cur, mk, FALSE))

\* Arrow branches without min and max: the neighbouring cell, on the grid or not.
arrow_target_unclamped(key, current_pos) ==
    CASE key = "K_DOWN" -> Cell(current_pos.row + 1, current_pos.col)
      [] key = "K_UP" -> Cell(current_pos.row - 1, current_pos.col)
      [] key = "K_RIGHT" -> Cell(current_pos.row, current_pos.col + 1)
      [] key = "K_LEFT" -> Cell(current_pos.row, current_pos.col - 1)

\* The four arrow branches: the target cell.
arrow_target(key, current_pos) ==
    CASE key = "K_DOWN" ->
           Cell(IF MaxRow <= current_pos.row + 1 THEN MaxRow ELSE current_pos.row + 1,
                current_pos.col)
      [] key = "K_UP" ->
           Cell(IF 0 >= current_pos.row - 1 THEN 0 ELSE current_pos.row - 1,
                current_pos.col)
      [] key = "K_RIGHT" ->
           Cell(current_pos.row,
                IF MaxCol <= current_pos.col + 1 THEN MaxCol ELSE current_pos.col + 1)
      [] key = "K_LEFT" ->
           Cell(current_pos.row,
                IF 0 >= current_pos.col - 1 THEN 0 ELSE current_pos.col - 1)

\* A mark that follows the cursor whatever the modifier is.
arrow_mark_follows(shift, target, current_mark) == target

\* The four arrow branches: the mark after move_cursor(target).  move_mark is
\* called only "if not self.input_interface.is_shift_down()".
arrow_mark(shift, target, current_mark) ==
    IF ~shift THEN target ELSE current_mark

\* A backspace that drops the first character of the buffer.
pop_first(contents) ==
    IF contents = <<>> THEN <<>> ELSE SubSeq(contents, 2, Len(contents))

\* "self.input_box_contents[:-1]"
pop_last(contents) ==
    IF contents = <<>> THEN <<>> ELSE SubSeq(contents, 1, Len(contents) - 1)

redirect_input_to_prompt(key, shift, d, cur, mk, contents) ==
    IF key = "K_RETURN"
    THEN After(set(d, cur, contents), cur, mk, FALSE, <<>>, FALSE)
    ELSE IF key = "K_BACKSPACE"
    THEN After(d, cur, mk, TRUE, pop_last(contents), FALSE)
    ELSE IF key = "K_SPACE"
    THEN After(d, cur, mk, TRUE, contents \o <<" ">>, FALSE)
    ELSE LET char == get_char(key)
         IN  IF PyIn(char, VALID_CHARS) /\ ~shift
             THEN After(d, cur, mk, TRUE, contents \o char, FALSE)
             ELSE IF PyIn(char, VALID_CHARS) /\ shift
             THEN After(d, cur, mk, TRUE,
                        contents \o <<SHIFT_CHARS[PyIndex(char, VALID_CHARS) + 1]>>,
                        FALSE)
             ELSE After(d, cur, mk, TRUE, contents, FALSE)

\* An entry box that lets the DELETE key through to the sheet.
input_box_takes_but_delete(toggle, key) == toggle /\ key # "K_DELETE"

\* "if self.toggle_input_box:", tested before every key.
input_box_takes(toggle, key) == toggle

\* self.dirty and self.input_box_dirty, which only the renderer reads, are left
\* out.
parse_keyboard_input_down(key, shift, d, cur, mk, toggle, contents) ==
    IF input_box_takes(toggle, key)
    THEN redirect_input_to_prompt(key, shift, d, cur, mk, contents)
    ELSE IF key = "K_RETURN"
    THEN After(d, cur, mk, TRUE, <<>>, FALSE)
    ELSE IF key \in {"K_DOWN", "K_UP", "K_RIGHT", "K_LEFT"}
    THEN After(d, arrow_target(key, cur),
               arrow_mark(shift, arrow_target(key, cur), mk),
               toggle, contents, FALSE)
    ELSE IF key = "K_DELETE"
    THEN After(key_delete(d, cur, mk), cur, mk, toggle, contents, FALSE)
    ELSE IF key = "K_SPACE"
    THEN After(key_space(d, cur, mk).data, cur, mk, toggle, contents,
               key_space(d, cur, mk).raised)
    ELSE After(d, cur, mk, toggle, contents, FALSE)

\* The state after construction: Spreadsheet() and App.__init__.
Init ==
    /\ data = EmptyData
    /\ cursor = Cell(0, 0)
    /\ mark = Cell(0, 0)
    /\ toggle_input_box = FALSE
    /\ input_box_contents = <<>>
    /\ raised = FALSE
    /\ steps = 0
    /\ written = {}
    /\ res = Returned(Cell(0, 0), None)
    /\ last = [op |-> NoOp, shift |-> FALSE, data |-> EmptyData,
               cursor |-> Cell(0, 0), mark |-> Cell(0, 0),
               toggle_input_box |-> FALSE, input_box_contents |-> <<>>]
    /\ heap = InitHeap

\* One KEY_DOWN event of parse_events.  An exception the handler raises leaves
\* run(): no event is handled after it.
KeyDown(key, shift) ==
    /\ ~raised
    /\ steps < MaxKeys
    /\ \E a \in {parse_keyboard_input_down(key, shift, data, cursor, mark,
                                            toggle_input_box, input_box_contents)} :
           /\ Len(a.input_box_contents) <= MaxBuf
           /\ data' = a.data
           /\ cursor' = a.cursor
           /\ mark' = a.mark
           /\ toggle_input_box' = a.toggle_input_box
           /\ input_box_contents' = a.input_box_contents
           /\ raised' = a.raised
    /\ steps' = steps + 1
    /\ last' = Before(key, shift)
    /\ written' = written \cup Stored(data')
    /\ UNCHANGED res
    /\ UNCHANGED heap

Next == \E key \in Keys, shift \in BOOLEAN : KeyDown(key, shift)

Spec == Init /\ [][Next]_vars

\* ------------------------------------------------------------- direct calls
\* The cells and values of the direct calls: on the grid, left of it, above it
\* and below its last row.
ApiRows == {-1, 0, MaxRow + 1}
ApiCols == {-1, 0, 1}
ApiCells == {Cell(r, c) : r \in ApiRows, c \in ApiCols}
ApiVals == {<<>>, <<"1">>}

BeforeCall(op, cell, val) ==
    [op |-> op, shift |-> FALSE, cell |-> cell, val |-> val, data |-> data,
     cursor |-> cursor, mark |-> mark, toggle_input_box |-> toggle_input_box,
     input_box_contents |-> input_box_contents]

CallSet(cell, val) ==
    /\ steps < MaxOps
    /\ data' = set(data, cell, val)
    /\ res' = Returned(cell, None)
    /\ last' = BeforeCall("set", cell, val)
    /\ steps' = steps + 1
    /\ written' = written \cup Stored(data')
    /\ UNCHANGED <<cursor, mark, toggle_input_box, input_box_contents, raised>>
    /\ UNCHANGED heap

CallDelete(cell) ==
    /\ steps < MaxOps
    /\ data' = delete(data, cell)
    /\ res' = Returned(cell, None)
    /\ last' = BeforeCall("delete", cell, None)
    /\ steps' = steps + 1
    /\ written' = written \cup Stored(data')
    /\ UNCHANGED <<cursor, mark, toggle_input_box, input_box_contents, raised>>
    /\ UNCHANGED heap

CallGet(cell) ==
    /\ steps < MaxOps
    /\ res' = Returned(cell, get(data, cell))
    /\ last' = BeforeCall("get", cell, None)
    /\ steps' = steps + 1
    /\ UNCHANGED <<data, written, cursor, mark, toggle_input_box,
                   input_box_contents, raised>>
    /\ UNCHANGED heap

NextGrid ==
    \E cell \in ApiCells :
        \/ \E val \in ApiVals \cup {None} : CallSet(cell, val)
        \/ CallDelete(cell)
        \/ CallGet(cell)

SpecGrid == Init /\ [][NextGrid]_vars

\* ------------------------------------------------------------- cursor and mark objects
\* The coordinates the caller uses, and what the Spreadsheet reads as its
\* cursor and its mark: the fields of the objects it refers to.
CopyCoords == 0..1

Deref(h, ref) == h.cells[ref]

BeforeObj(op, ref) ==
    [op |-> op, shift |-> FALSE, ref |-> ref, data |-> data, cursor |-> cursor,
     mark |-> mark, toggle_input_box |-> toggle_input_box,
     input_box_contents |-> input_box_contents, heap |-> heap]

\* The caller makes a Cell.
NewCell(row, col) ==
    /\ Len(heap.cells) < MaxObjs
    /\ \E n \in {new_cell(heap, row, col)} :
          heap' = [heap EXCEPT !.cells = n.cells, !.held = @ \cup {n.ref}]
    /\ last' = BeforeObj("Cell", Len(heap.cells) + 1)
    /\ UNCHANGED <<data, cursor, mark, toggle_input_box, input_box_contents,
                   raised, steps, res, written>>

\* move_cursor(cell): "self.cursor = cell.copy()"
CallMoveCursor(a) ==
    /\ Len(heap.cells) < MaxObjs
    /\ \E n \in {copy(heap, a)} :
          /\ heap' = [heap EXCEPT !.cells = n.cells, !.cursor = n.ref]
          /\ cursor' = Deref(heap', n.ref)
    /\ last' = BeforeObj("move_cursor", a)
    /\ UNCHANGED <<data, mark, toggle_input_box, input_box_contents,
                   raised, steps, res, written>>

\* move_mark(cell): "self.mark = cell.copy()"
CallMoveMark(a) ==
    /\ Len(heap.cells) < MaxObjs
    /\ \E n \in {copy(heap, a)} :
          /\ heap' = [heap EXCEPT !.cells = n.cells, !.mark = n.ref]
          /\ mark' = Deref(heap', n.ref)
    /\ last' = BeforeObj("move_mark", a)
    /\ UNCHANGED <<data, cursor, toggle_input_box, input_box_contents,
                   raised, steps, res, written>>

\* get_cursor(): "return self.cursor.copy()", kept by the caller
CallGetCursor ==
    /\ Len(heap.cells) < MaxObjs
    /\ \E n \in {copy(heap, heap.cursor)} :
          /\ heap' = [heap EXCEPT !.cells = n.cells, !.held = @ \cup {n.ref}]
          /\ last' = BeforeObj("get_cursor", n.ref)
    /\ UNCHANGED <<data, cursor, mark, toggle_input_box, input_box_contents,
                   raised, steps, res, written>>

\* get_mark(): "return self.mark.copy()", kept by the caller
CallGetMark ==
    /\ Len(heap.cells) < MaxObjs
    /\ \E n \in {copy(heap, heap.mark)} :
          /\ heap' = [heap EXCEPT !.cells = n.cells, !.held = @ \cup {n.ref}]
          /\ last' = BeforeObj("get_mark", n.ref)
    /\ UNCHANGED <<data, cursor, mark, toggle_input_box, input_box_contents,
                   raised, steps, res, written>>

\* The caller assigns to row and col of a Cell it holds.  The Spreadsheet's
\* cursor and mark are read through its own references afterwards.
Mutate(a, row, col) ==
    /\ heap.cells[a] # Cell(row, col)
    /\ heap' = [heap EXCEPT !.cells[a] = Cell(row, col)]
    /\ cursor' = Deref(heap', heap.cursor)
    /\ mark' = Deref(heap', heap.mark)
    /\ last' = BeforeObj("mutate", a)
    /\ UNCHANGED <<data, toggle_input_box, input_box_contents,
                   raised, steps, res, written>>

NextCopy ==
    \/ \E row \in CopyCoords, col \in CopyCoords : NewCell(row, col)
    \/ \E a \in heap.held : CallMoveCursor(a) \/ CallMoveMark(a)
    \/ CallGetCursor
    \/ CallGetMark
    \/ \E a \in heap.held, row \in CopyCoords, col \in CopyCoords : Mutate(a, row, col)

SpecCopy == Init /\ [][NextCopy]_vars

\* ------------------------------------------------------------- selections
\* The cursors and marks of the drawn selections.
SelCells == {Cell(r, c) : r \in Rows, c \in 0..MaxSelCol}

\* The cells a drawn sheet may hold a value in; the first holds the empty text.
SelOccupied == {Cell(0, 1), Cell(1, 1), Cell(1, 3), Cell(2, 4)}

\* The sheet set and delete leave when the cells of S hold values and the rows
\* of E were written and cleared again: a row of E without a cell of S keeps an
\* empty bucket.
SelSheet(S, E) ==
    [r \in {p.row : p \in S} \cup E |->
        [c \in {p.col : p \in {q \in S : q.row = r}} |->
            IF Cell(r, c) = Cell(0, 1) THEN <<>> ELSE <<"1">>]]

InitSelect ==
    /\ \E S \in SUBSET SelOccupied, E \in SUBSET Rows : data = SelSheet(S, E)
    /\ cursor \in SelCells
    /\ mark \in SelCells
    /\ toggle_input_box = FALSE
    /\ input_box_contents = <<>>
    /\ raised = FALSE
    /\ steps = 0
    /\ written = Stored(data)
    /\ res = Selected(<<>>)
    /\ last = [op |-> NoOp, shift |-> FALSE, data |-> data, cursor |-> cursor,
               mark |-> mark, toggle_input_box |-> FALSE,
               input_box_contents |-> <<>>]
    /\ heap = InitHeap

\* get_selected_cells(include_empty=True)
SelectAll ==
    /\ last.op = NoOp
    /\ res' = get_selected_cells_call(data, cursor, mark, TRUE)
    /\ last' = Before("select_all", FALSE)
    /\ UNCHANGED <<data, cursor, mark, toggle_input_box, input_box_contents,
                   raised, steps, written>>
    /\ UNCHANGED heap

\* get_selected_cells(), include_empty left at False
SelectStored ==
    /\ last.op = NoOp
    /\ res' = get_selected_cells_call(data, cursor, mark, FALSE)
    /\ last' = Before("select_stored", FALSE)
    /\ UNCHANGED <<data, cursor, mark, toggle_input_box, input_box_contents,
                   raised, steps, written>>
    /\ UNCHANGED heap

NextSelect == SelectAll \/ SelectStored

SpecSelect == InitSelect /\ [][NextSelect]_vars

\* ------------------------------------------------------------- decoding
\* What draw makes of the text of a stored cell before it renders it:
\*     if "??" in text: formatting, content_text = text.split("??")
\*     else: formatting = None; content_text = text
\* The assignment to two names raises ValueError unless split gave two pieces.
Decoded(formatting, content_text) ==
    [formatting |-> formatting, content |-> content_text, raised |-> FALSE]
DecodeRaised == [formatting |-> None, content |-> None, raised |-> TRUE]

draw_decode(text) ==
    IF PyIn(<<"?", "?">>, text)
    THEN IF Len(PySplit(text)) # 2
         THEN DecodeRaised
         ELSE Decoded(PySplit(text)[1], PySplit(text)[2])
    ELSE Decoded(None, text)

\* The raw values drawn for the decoders: every text of up to MaxRaw characters
\* over a letter, a digit and the character of the separator.
RawChars == {"?", "1", "a"}
RawTexts == UNION {[1..n -> RawChars] : n \in 0..MaxRaw}

\* A sheet whose cell (0,0) holds a drawn text, as a commit leaves it.
InitDecode ==
    /\ \E raw \in RawTexts : data = set(EmptyData, Cell(0, 0), raw)
    /\ cursor = Cell(0, 0)
    /\ mark = Cell(0, 0)
    /\ toggle_input_box = FALSE
    /\ input_box_contents = <<>>
    /\ raised = FALSE
    /\ steps = 0
    /\ written = Stored(data)
    /\ res = Decoded(None, None)
    /\ last = [op |-> NoOp, shift |-> FALSE, data |-> data, cursor |-> cursor,
               mark |-> mark, toggle_input_box |-> FALSE,
               input_box_contents |-> <<>>]
    /\ heap = InitHeap

\* draw decodes the text of the cell.
DecodeDraw ==
    /\ last.op = NoOp
    /\ res' = draw_decode(get(data, cursor))
    /\ last' = Before("draw", FALSE)
    /\ UNCHANGED <<data, cursor, mark, toggle_input_box, input_box_contents,
                   raised, steps, written>>
    /\ UNCHANGED heap

\* get_content of iterate_function_v1 on the value of the cell.
DecodeV1 ==
    /\ last.op = NoOp
    /\ res' = Decoded(None, v1_get_content(get(data, cursor)))
    /\ last' = Before("v1_get_content", FALSE)
    /\ UNCHANGED <<data, cursor, mark, toggle_input_box, input_box_contents,
                   raised, steps, written>>
    /\ UNCHANGED heap

\* get_content of iterate_function_v2 on the value of the cell.
DecodeV2 ==
    /\ last.op = NoOp
    /\ res' = v2_get_content(get(data, cursor))
    /\ last' = Before("v2_get_content", FALSE)
    /\ UNCHANGED <<data, cursor, mark, toggle_input_box, input_box_contents,
                   raised, steps, written>>
    /\ UNCHANGED heap

NextDecode == DecodeDraw \/ DecodeV1 \/ DecodeV2

SpecDecode == InitDecode /\ [][NextDecode]_vars

\* ------------------------------------------------------------- colours
\* The patterns of draw, r".*bg\((\d+),(\d+),(\d+)\).*" and the same with fg,
\* applied with match() to the formatting of a cell.
\* The place after the longest run of digits that starts at place i of s.
RECURSIVE digits_end(_, _)
digits_end(s, i) ==
    IF i <= Len(s) /\ s[i] \in Digits THEN digits_end(s, i + 1) ELSE i

\* kind "(" \d+ "," \d+ "," \d+ ")" matched at place i of s: whether it
\* matches, and the three groups converted by int().
directive_at(kind, s, i) ==
    LET e1 == digits_end(s, i + 3)
        e2 == digits_end(s, e1 + 1)
        e3 == digits_end(s, e2 + 1)
        lit(j, c) == j <= Len(s) /\ s[j] = c
        ok == /\ lit(i, kind) /\ lit(i + 1, "g") /\ lit(i + 2, "(")
              /\ e1 > i + 3 /\ lit(e1, ",")
              /\ e2 > e1 + 1 /\ lit(e2, ",")
              /\ e3 > e2 + 1 /\ lit(e3, ")")
    IN  IF ok
        THEN [ok |-> TRUE,
              color |-> <<DigitsVal(SubSeq(s, i + 3, e1 - 1)),
                          DigitsVal(SubSeq(s, e1 + 1, e2 - 1)),
                          DigitsVal(SubSeq(s, e2 + 1, e3 - 1))>>]
        ELSE [ok |-> FALSE, color |-> <<0, 0, 0>>]

\* A pattern whose leading ".*" takes as little as it can: the leftmost place.
pattern_match_lazy(kind, formatting, default) ==
    LET places == {i \in 1..Len(formatting) : directive_at(kind, formatting, i).ok}
    IN  IF places = {} THEN default
        ELSE directive_at(kind, formatting, SetMin(places)).color

\* pattern.match(formatting) and the colour read from its groups, or the
\* default when there is no match.  The leading ".*" is greedy: it takes as much
\* as it can, so the directive matched is the one at the rightmost place.
pattern_match(kind, formatting, default) ==
    LET places == {i \in 1..Len(formatting) : directive_at(kind, formatting, i).ok}
    IN  IF places = {} THEN default
        ELSE directive_at(kind, formatting, SetMax(places)).color

\* What draw makes of the text of a cell that is not in text_cache: the content
\* it renders, the colour it renders it in and the colour it fills behind it.
Drawn(content_text, bg_color, fg_color) ==
    [content |-> content_text, bg_color |-> bg_color, fg_color |-> fg_color,
     raised |-> FALSE]
DrawRaised ==
    [content |-> None, bg_color |-> None, fg_color |-> None, raised |-> TRUE]

draw_text(text) ==
    LET d == draw_decode(text)
    IN  IF d.raised THEN DrawRaised
        ELSE IF d.formatting # None
        THEN Drawn(d.content, pattern_match("b", d.formatting, None),
                   pattern_match("f", d.formatting, <<0, 0, 0>>))
        ELSE Drawn(d.content, None, <<0, 0, 0>>)

\* The pieces of the formatting texts drawn: well-formed directives of both
\* kinds, malformed ones, and text that is no directive.
ColorTokens ==
    {<<"b", "g", "(", "1", ",", "2", ",", "3", ")">>,
     <<"b", "g", "(", "4", "0", ",", "5", ",", "6", ")">>,
     <<"f", "g", "(", "7", ",", "8", ",", "9", ")">>,
     <<"f", "g", "(", "2", "5", "5", ",", "0", ",", "1", ")">>,
     <<"b", "g", "(", "1", ",", "2", ")">>,
     <<"f", "g", "(", "1", ",", ",", "3", ")">>,
     <<"b", "g", "(", "1", ",", "2", ",", "3">>,
     <<"g", "(", "1", ",", "2", ",", "3", ")">>,
     <<";">>,
     <<"x">>}

RECURSIVE Join(_)
Join(tokens) == IF tokens = <<>> THEN <<>> ELSE Head(tokens) \o Join(Tail(tokens))

FormatTexts == {Join(t) : t \in UNION {[1..n -> ColorTokens] : n \in 0..MaxTokens}}

\* A sheet whose cell (0,0) holds a formatting text, with the separator and a
\* content after it or without them, as a commit leaves it.
InitColors ==
    /\ \E f \in FormatTexts, tail \in {<<>>, <<"?", "?", "1">>} :
          data = set(EmptyData, Cell(0, 0), f \o tail)
    /\ cursor = Cell(0, 0)
    /\ mark = Cell(0, 0)
    /\ toggle_input_box = FALSE
    /\ input_box_contents = <<>>
    /\ raised = FALSE
    /\ steps = 0
    /\ written = Stored(data)
    /\ res = Drawn(None, None, None)
    /\ last = [op |-> NoOp, shift |-> FALSE, data |-> data, cursor |-> cursor,
               mark |-> mark, toggle_input_box |-> FALSE,
               input_box_contents |-> <<>>]
    /\ heap = InitHeap

\* draw renders the text of the cell.
DrawText ==
    /\ last.op = NoOp
    /\ res' = draw_text(get(data, cursor))
    /\ last' = Before("draw_text", FALSE)
    /\ UNCHANGED <<data, cursor, mark, toggle_input_box, input_box_contents,
                   raised, steps, written>>
    /\ UNCHANGED heap

NextColors == DrawText

SpecColors == InitColors /\ [][NextColors]_vars

\* ------------------------------------------------------------- claims on the rules
\* The content of a raw value as the claims read it: the whole value, or the
\* piece that follows its first "??" and ends before the next "??".
SepAt(s) ==
    LET at == {i \in 1..(Len(s) - 1) : s[i] = "?" /\ s[i + 1] = "?"}
    IN  IF at = {} THEN 0 ELSE SetMin(at)

Content(raw) ==
    IF SepAt(raw) = 0 THEN raw
    ELSE LET rest == SubSeq(raw, SepAt(raw) + 2, Len(raw))
         IN  IF SepAt(rest) = 0 THEN rest ELSE SubSeq(rest, 1, SepAt(rest) - 1)

\* The 8 Moore neighbours of a cell.
Moore(p) ==
    {Cell(r, c) : r \in (p.row - 1)..(p.row + 1), c \in (p.col - 1)..(p.col + 1)}
    \ {p}

Parseable(raw) == ~PyInt(Content(raw)).raised

DecodedState(d, p) ==
    IF get(d, p) = None THEN 0 ELSE PyInt(Content(get(d, p))).val

RECURSIVE SumStates(_, _)
SumStates(d, S) ==
    IF S = {} THEN 0
    ELSE LET p == CHOOSE q \in S : TRUE
         IN  DecodedState(d, p) + SumStates(d, S \ {p})

AliveCount(d, p) == SumStates(d, Moore(p))

AllDecode(d, p) ==
    \A q \in Moore(p) \cup {p} : get(d, q) = None \/ Parseable(get(d, q))

\* The three parents of a cell, left to right, and their contents.
Parents(p) ==
    <<Cell(p.row - 1, p.col - 1), Cell(p.row - 1, p.col), Cell(p.row - 1, p.col + 1)>>

ParentContent(d, p, i) ==
    IF get(d, Parents(p)[i]) = None THEN None ELSE Content(get(d, Parents(p)[i]))

ValidParents(d, p) ==
    {i \in 1..3 : ParentContent(d, p, i) \in {<<"0">>, <<"1">>}}

\* C2: on a sheet whose cells around the target all decode to integers, Variant B
\* returns a live cell exactly when the target's state is 1 and the sum of the 8
\* neighbours' states is 2 or 3, or the state is not 1 and the sum is exactly 3.
C2_LifeLaw ==
    (last.op = "v2" /\ AllDecode(last.data, res.cell)) =>
        /\ ~res.raised
        /\ (res.val # None) <=>
               IF DecodedState(last.data, res.cell) = 1
               THEN AliveCount(last.data, res.cell) \in {2, 3}
               ELSE AliveCount(last.data, res.cell) = 3

\* A live corner cell, whose neighbours at row -1 and column -1 count 0, survives
\* on its 3 live neighbours.
C2_Witness ==
    /\ last.op = "v2"
    /\ res.cell = Cell(0, 0)
    /\ DecodedState(last.data, res.cell) = 1
    /\ AliveCount(last.data, res.cell) = 3
    /\ res.val = LiveTag

\* C4: Variant A on an empty target with three parents whose contents are "0" or
\* "1" returns the colorized bit of the table "01101110" at the place of the
\* pattern in the order 111, 110, 101, 100, 011, 010, 001, 000.
C4_Table == <<"0", "1", "1", "0", "1", "1", "1", "0">>

C4_Bit(c) == IF c = <<"1">> THEN 1 ELSE 0

C4_ThreeParents ==
    (/\ last.op = "v1"
     /\ get(last.data, res.cell) = None
     /\ ValidParents(last.data, res.cell) = {1, 2, 3}) =>
        LET index == 7 - (4 * C4_Bit(ParentContent(last.data, res.cell, 1))
                          + 2 * C4_Bit(ParentContent(last.data, res.cell, 2))
                          + C4_Bit(ParentContent(last.data, res.cell, 3)))
        IN  /\ ~res.raised
            /\ res.val = IF C4_Table[index + 1] = "0" THEN DeadTag ELSE LiveTag

\* Parents "1", "0", "1" select the table's place 2, a live cell.
C4_Witness ==
    /\ last.op = "v1"
    /\ get(last.data, res.cell) = None
    /\ ParentContent(last.data, res.cell, 1) = <<"1">>
    /\ ParentContent(last.data, res.cell, 2) = <<"0">>
    /\ ParentContent(last.data, res.cell, 3) = <<"1">>
    /\ res.val = LiveTag

\* C5: Variant A on an empty target with exactly 1 or 2 parents of content "0"
\* or "1" returns the colorized "0", and raises nothing.
C5_PartialAncestry ==
    (/\ last.op = "v1"
     /\ get(last.data, res.cell) = None
     /\ Cardinality(ValidParents(last.data, res.cell)) \in {1, 2}) =>
        /\ ~res.raised
        /\ res.val = DeadTag

\* Two valid parents beside a parent that holds a word.
C5_Witness ==
    /\ last.op = "v1"
    /\ get(last.data, res.cell) = None
    /\ Cardinality(ValidParents(last.data, res.cell)) = 2
    /\ \E i \in 1..3 : ParentContent(last.data, res.cell, i) = <<"x">>
    /\ res.val = DeadTag

\* C6: Variant A on an empty target with no parent of content "0" or "1" returns
\* None, and setting that leaves the cell empty.
C6_NoAncestry ==
    (/\ last.op = "v1"
     /\ get(last.data, res.cell) = None
     /\ ValidParents(last.data, res.cell) = {}) =>
        /\ ~res.raised
        /\ res.val = None
        /\ get(set(last.data, res.cell, res.val), res.cell) = None

\* No valid parent although a parent is stored.
C6_Witness ==
    /\ last.op = "v1"
    /\ get(last.data, res.cell) = None
    /\ ValidParents(last.data, res.cell) = {}
    /\ \E i \in 1..3 : get(last.data, Parents(res.cell)[i]) # None
    /\ res.val = None

\* C7: Variant A on a target that holds a value, the empty text included,
\* returns that raw value whatever the parents are.
C7_OccupiedFrozen ==
    (last.op = "v1" /\ get(last.data, res.cell) # None) =>
        /\ ~res.raised
        /\ res.val = get(last.data, res.cell)

\* A stored empty text under three valid parents.
C7_Witness ==
    /\ last.op = "v1"
    /\ get(last.data, res.cell) = <<>>
    /\ ValidParents(last.data, res.cell) = {1, 2, 3}
    /\ res.val = <<>>

\* C8: evaluating either rule leaves the stored cells, the cursor and the mark as
\* they were.
C8_RulesPure ==
    (last.op \in {"v1", "v2"}) =>
        /\ data = last.data
        /\ cursor = last.cursor
        /\ mark = last.mark

\* A rule returned a value that differs from what the target holds.
C8_Witness ==
    /\ last.op \in {"v1", "v2"}
    /\ ~res.raised
    /\ res.val # get(data, res.cell)

\* C9: Variant B raises exactly when the target or one of its 8 neighbours holds
\* a value whose content is no integer; an absent cell raises nothing.
C9_ParseFailureRaises ==
    (last.op = "v2") => (res.raised <=> ~AllDecode(last.data, res.cell))

\* A neighbour holds the empty text.
C9_Witness ==
    /\ last.op = "v2"
    /\ get(last.data, res.cell) = None
    /\ \E q \in Moore(res.cell) : get(last.data, q) = <<>>
    /\ res.raised

\* ------------------------------------------------------------- claims on App
\* The inclusive rectangle spanned by two cells.
Box(a, b) ==
    {Cell(r, c) : r \in (IF a.row <= b.row THEN a.row ELSE b.row)
                        ..(IF a.row <= b.row THEN b.row ELSE a.row),
                  c \in (IF a.col <= b.col THEN a.col ELSE b.col)
                        ..(IF a.col <= b.col THEN b.col ELSE a.col)}

\* The last event was a K_SPACE outside edit mode whose handler returned.
Evolved == last.op = "K_SPACE" /\ ~last.toggle_input_box /\ ~raised

\* C1: after an evolve-selection step every cell of the envelope holds the
\* Variant B result computed for it on the sheet as it was before the step.
C1_TwoPhaseBatch ==
    Evolved =>
        \A p \in Box(last.cursor, last.mark) :
            get(data, p) = iterate_function_v2(p, last.data).val

\* A step that rewrote a cell X of the envelope, and in which a neighbour Y of X
\* got a value other than the one it gets from a sheet that holds X's new value.
C1_Witness ==
    /\ Evolved
    /\ \E x \in Box(last.cursor, last.mark) :
         \E y \in Box(last.cursor, last.mark) \cap Moore(x) :
            /\ get(data, x) # get(last.data, x)
            /\ get(data, y) #
                 iterate_function_v2(y, set(last.data, x, get(data, x))).val

\* C3: Variant B returns None or the live tag and nothing else, so that after an
\* evolve-selection step every cell of the envelope is absent or holds the tag.
C3_NoDeadCellStored ==
    Evolved =>
        \A p \in Box(last.cursor, last.mark) :
            /\ iterate_function_v2(p, last.data).val \in {None, LiveTag}
            /\ get(data, p) \in {None, LiveTag}
            /\ p \in Stored(data) => data[p.row][p.col] = LiveTag

\* A step that cleared a stored cell and left a live one in the envelope.
C3_Witness ==
    /\ Evolved
    /\ \E p \in Box(last.cursor, last.mark) :
          get(last.data, p) # None /\ get(data, p) = None
    /\ \E p \in Box(last.cursor, last.mark) : get(data, p) = LiveTag

\* ------------------------------------------------------------- claims on Spreadsheet
\* C10: after set(P, v) with a value v, the empty text included, get(P) is v and
\* get(Q) is what it was for every other Q; get returns None, and raises
\* nothing, for every cell that was never written.
C10_SetGetAgree ==
    /\ (last.op = "set" /\ last.val # None) =>
          /\ get(data, last.cell) = last.val
          /\ \A q \in ApiCells \ {last.cell} : get(data, q) = get(last.data, q)
    /\ last.op = "get" =>
          /\ ~res.raised
          /\ res.cell \notin written => res.val = None
          /\ res.cell \in Stored(data) => res.val = data[res.cell.row][res.cell.col]
    /\ \A q \in ApiCells \ written : get(data, q) = None

\* A set of the empty text beside a stored cell of the same row, and a get of a
\* cell left of the grid that was never written.
C10_Witness ==
    \/ /\ last.op = "set"
       /\ last.val = <<>>
       /\ \E q \in ApiCells \ {last.cell} :
             q.row = last.cell.row /\ get(last.data, q) # None
    \/ /\ last.op = "get"
       /\ res.cell.col = -1
       /\ res.cell \notin written
       /\ written # {}

\* The last call cleared a cell: delete(P), or set(P, None).
Cleared == last.op = "delete" \/ (last.op = "set" /\ last.val = None)

\* C11: after set(P, None) or delete(P), get(P) is None and get(Q) is what it
\* was for every other Q; on a cell that was absent before the call, cleared
\* earlier, never written or in a row without storage, the call raises nothing
\* and no get result changes.
C11_ClearIdempotent ==
    Cleared =>
        /\ ~raised
        /\ get(data, last.cell) = None
        /\ \A q \in ApiCells \ {last.cell} : get(data, q) = get(last.data, q)
        /\ get(last.data, last.cell) = None =>
               \A q \in ApiCells : get(data, q) = get(last.data, q)

\* The second clearing of a cell that was written: its row bucket is still
\* there, emptied by the first.
C11_Witness ==
    /\ Cleared
    /\ last.cell \in written
    /\ get(last.data, last.cell) = None
    /\ last.cell.row \in DOMAIN last.data
    /\ DOMAIN last.data[last.cell.row] = {}

\* C12: no entry of the cell map holds None, whatever commits, delete-selection
\* and evolve-selection steps came before: a cleared cell is no key of its row.
C12_NoNoneStored ==
    \A r \in DOMAIN data : \A c \in DOMAIN data[r] : data[r][c] # None

\* A delete-selection or evolve-selection step cleared a stored cell of a row
\* whose bucket stays in the map.
C12_Witness ==
    /\ last.op \in {"K_DELETE", "K_SPACE"}
    /\ ~last.toggle_input_box
    /\ \E p \in Stored(last.data) \ Stored(data) : p.row \in DOMAIN data

\* C13: the bounding box of cursor and mark is their component-wise minimum and
\* maximum; its corners are ordered, it holds the cursor and the mark, and it
\* has at least one cell, exactly one when the cursor is the mark.
C13_BoundingBox ==
    LET bbox_min == get_bounding_box(cursor, mark)[1]
        bbox_max == get_bounding_box(cursor, mark)[2]
        size == (bbox_max.row - bbox_min.row + 1) * (bbox_max.col - bbox_min.col + 1)
    IN  /\ bbox_min = Cell(SetMin({cursor.row, mark.row}), SetMin({cursor.col, mark.col}))
        /\ bbox_max = Cell(SetMax({cursor.row, mark.row}), SetMax({cursor.col, mark.col}))
        /\ bbox_min.row <= bbox_max.row
        /\ bbox_min.col <= bbox_max.col
        /\ \A p \in {cursor, mark} :
              /\ bbox_min.row <= p.row /\ p.row <= bbox_max.row
              /\ bbox_min.col <= p.col /\ p.col <= bbox_max.col
        /\ size >= 1
        /\ cursor = mark => size = 1

\* The cursor above and right of the mark: neither is a corner of the box.
C13_Witness ==
    /\ cursor.row < mark.row
    /\ cursor.col > mark.col
    /\ get_bounding_box(cursor, mark) = <<Cell(cursor.row, mark.col), Cell(mark.row, cursor.col)>>

\* The arrow keys, and an arrow event handled outside edit mode.
ArrowKeys == {"K_DOWN", "K_UP", "K_RIGHT", "K_LEFT"}

Moved == last.op \in ArrowKeys /\ ~last.toggle_input_box

\* C16: from construction on, the cursor and the mark stay within rows 0..max_row
\* and columns 0..max_col, and an arrow key towards an edge the cursor is on
\* leaves that coordinate of the cursor on the edge.
C16_Clamped ==
    /\ \A p \in {cursor, mark} :
          /\ 0 <= p.row /\ p.row <= MaxRow
          /\ 0 <= p.col /\ p.col <= MaxCol
    /\ Moved =>
          /\ (last.op = "K_DOWN" /\ last.cursor.row = MaxRow) => cursor.row = MaxRow
          /\ (last.op = "K_UP" /\ last.cursor.row = 0) => cursor.row = 0
          /\ (last.op = "K_RIGHT" /\ last.cursor.col = MaxCol) => cursor.col = MaxCol
          /\ (last.op = "K_LEFT" /\ last.cursor.col = 0) => cursor.col = 0

\* A K_RIGHT with the modifier on while the cursor is on the last column and the
\* mark is not.
C16_Witness ==
    /\ Moved
    /\ last.op = "K_RIGHT"
    /\ last.shift
    /\ last.cursor.col = MaxCol
    /\ cursor.col = MaxCol
    /\ mark.col < MaxCol

\* The cell one step from p in the direction of an arrow key, kept on the grid.
ClampedStep(key, p) ==
    LET row == p.row + (IF key = "K_DOWN" THEN 1 ELSE IF key = "K_UP" THEN -1 ELSE 0)
        col == p.col + (IF key = "K_RIGHT" THEN 1 ELSE IF key = "K_LEFT" THEN -1 ELSE 0)
    IN  Cell(SetMax({0, SetMin({MaxRow, row})}), SetMax({0, SetMin({MaxCol, col})}))

\* C17: after an arrow key outside edit mode the cursor is the clamped target;
\* with the modifier off the mark is the target too, with the modifier on the
\* mark is what it was.
C17_MarkFollows ==
    Moved =>
        /\ cursor = ClampedStep(last.op, last.cursor)
        /\ ~last.shift => mark = cursor
        /\ last.shift => mark = last.mark

\* An extending move that took the cursor away from a mark it shared a cell
\* with before.
C17_Witness ==
    /\ Moved
    /\ last.shift
    /\ last.cursor = last.mark
    /\ cursor # last.cursor
    /\ mark = last.mark

\* The character a key of the model types, by the keyboard's layout.
Typed(key, shift) ==
    CASE key = "K_1" -> IF shift THEN "!" ELSE "1"
      [] key = "K_3" -> IF shift THEN "#" ELSE "3"
      [] key = "K_SPACE" -> " "

\* C18: in edit mode RETURN sets the cursor's cell to the buffer, empties the
\* buffer and leaves edit mode; a character key appends its character, a
\* backspace removes the last character and does nothing on an empty buffer;
\* RETURN outside edit mode enters it with an empty buffer.
C18_Commit ==
    /\ ~toggle_input_box => input_box_contents = <<>>
    /\ (last.op = "K_RETURN" /\ last.toggle_input_box) =>
          /\ ~raised
          /\ get(data, last.cursor) = last.input_box_contents
          /\ \A q \in (Cells \cup written) \ {last.cursor} :
                get(data, q) = get(last.data, q)
          /\ input_box_contents = <<>>
          /\ ~toggle_input_box
          /\ cursor = last.cursor /\ mark = last.mark
    /\ (last.op = "K_RETURN" /\ ~last.toggle_input_box) =>
          /\ toggle_input_box
          /\ input_box_contents = <<>>
          /\ data = last.data
    /\ (last.op = "K_BACKSPACE" /\ last.toggle_input_box) =>
          /\ ~raised
          /\ toggle_input_box
          /\ data = last.data
          /\ last.input_box_contents = <<>> => input_box_contents = <<>>
          /\ last.input_box_contents # <<>> =>
                input_box_contents \o <<last.input_box_contents[Len(last.input_box_contents)]>>
                   = last.input_box_contents
    /\ (last.op \in CharKeys \cup {"K_SPACE"} /\ last.toggle_input_box) =>
          /\ toggle_input_box
          /\ data = last.data
          /\ input_box_contents = last.input_box_contents \o <<Typed(last.op, last.shift)>>

\* A commit of a typed text over a cell that held another text.
C18_Witness ==
    /\ last.op = "K_RETURN"
    /\ last.toggle_input_box
    /\ last.input_box_contents # <<>>
    /\ get(last.data, last.cursor) \notin {None, last.input_box_contents}
    /\ get(data, cursor) = last.input_box_contents

\* C19: after K_DELETE outside edit mode every cell of the bounding box is
\* absent, every cell outside it holds what it held, and the cursor and the
\* mark are where they were.
C19_DeleteSelection ==
    (last.op = "K_DELETE" /\ ~last.toggle_input_box) =>
        /\ ~raised
        /\ \A p \in Box(last.cursor, last.mark) : get(data, p) = None
        /\ \A q \in (Cells \cup written) \ Box(last.cursor, last.mark) :
              get(data, q) = get(last.data, q)
        /\ cursor = last.cursor
        /\ mark = last.mark

\* A delete-selection that cleared two cells of the box and left a stored cell
\* outside it.
C19_Witness ==
    /\ last.op = "K_DELETE"
    /\ ~last.toggle_input_box
    /\ Cardinality(Stored(last.data) \cap Box(last.cursor, last.mark)) >= 2
    /\ Stored(data) # {}

\* The last event was a key handled while the entry box was open.
InEditMode == last.op \in Keys /\ last.toggle_input_box

\* C26: a key-down event handled in edit mode leaves the cursor and the mark
\* as they were and raises nothing; unless it is RETURN it leaves the sheet as
\* it was and the entry box open; RETURN sets the cell at the cursor to the
\* buffer and changes no other cell.  So a key that moved the cursor or the
\* mark, or a DELETE or SPACE that changed the sheet, was handled outside edit
\* mode.
C26_EditModeCaptures ==
    /\ InEditMode =>
          /\ cursor = last.cursor
          /\ mark = last.mark
          /\ ~raised
          /\ last.op # "K_RETURN" => data = last.data /\ toggle_input_box
          /\ last.op = "K_RETURN" =>
                /\ data = set(last.data, last.cursor, last.input_box_contents)
                /\ \A q \in (Cells \cup Stored(last.data)) \ {last.cursor} :
                      get(data, q) = get(last.data, q)
    /\ (last.op \in ArrowKeys \cup {"K_DELETE", "K_SPACE"}
        /\ (cursor # last.cursor \/ mark # last.mark \/ data # last.data))
          => ~last.toggle_input_box

\* A DELETE key handled in edit mode with a stored cell at the cursor.
C26_Witness ==
    /\ InEditMode
    /\ last.op = "K_DELETE"
    /\ cursor \in Stored(data)
    /\ cursor # Cell(0, 0)

\* ------------------------------------------------------------- claims on selections
\* A list of cells in row-major order without repetition: rows ascend, and
\* columns ascend within a row.
RowMajor(cells) ==
    \A i \in 1..Len(cells) : \A j \in (i + 1)..Len(cells) :
        \/ cells[i].row < cells[j].row
        \/ (cells[i].row = cells[j].row /\ cells[i].col < cells[j].col)

Listed(cells) == {cells[i] : i \in 1..Len(cells)}

\* C14: get_selected_cells(include_empty=True) returns the cells of the
\* inclusive bounding box of cursor and mark, each once, in row-major order,
\* (max.row - min.row + 1) * (max.col - min.col + 1) of them, whatever the sheet
\* holds; cursor (2,5) and mark (0,1) give 15.
C14_SelectAll ==
    (last.op = "select_all") =>
        LET h == SetMax({cursor.row, mark.row}) - SetMin({cursor.row, mark.row}) + 1
            w == SetMax({cursor.col, mark.col}) - SetMin({cursor.col, mark.col}) + 1
        IN  /\ ~res.raised
            /\ Len(res.cells) = h * w
            /\ Listed(res.cells) = Box(cursor, mark)
            /\ RowMajor(res.cells)
            /\ (cursor = Cell(2, 5) /\ mark = Cell(0, 1)) => Len(res.cells) = 15

\* The selection of cursor (2,5) and mark (0,1) on a sheet that holds values in
\* some cells of the box and has no storage for one of its rows.
C14_Witness ==
    /\ last.op = "select_all"
    /\ cursor = Cell(2, 5)
    /\ mark = Cell(0, 1)
    /\ Len(res.cells) = 15
    /\ Stored(data) \cap Box(cursor, mark) # {}
    /\ \E p \in Box(cursor, mark) : p.row \notin DOMAIN data

\* C15: get_selected_cells() returns the cells of the bounding box that hold a
\* value, in row-major order, and raises nothing: a row that is no key of the
\* map and a row whose bucket is empty give no cell.
C15_SelectStored ==
    (last.op = "select_stored") =>
        /\ ~res.raised
        /\ Listed(res.cells) = {p \in Box(cursor, mark) : get(data, p) # None}
        /\ RowMajor(res.cells)

\* A box over a row without storage, a row with an emptied bucket and a row
\* with a stored cell.
C15_Witness ==
    /\ last.op = "select_stored"
    /\ ~res.raised
    /\ res.cells # <<>>
    /\ \E r \in Rows : \E p \in Box(cursor, mark) : p.row = r /\ r \notin DOMAIN data
    /\ \E r \in DOMAIN data : DOMAIN data[r] = {} /\ \E p \in Box(cursor, mark) : p.row = r

\* ------------------------------------------------------------- claims on decoding
\* The two sides of the first "??" of a raw value that holds one.
BeforeFirst(raw) == SubSeq(raw, 1, SepAt(raw) - 1)
AfterFirst(raw) == SubSeq(raw, SepAt(raw) + 2, Len(raw))

\* The number of places of a raw value where a "??" starts.
Separators(raw) ==
    Cardinality({i \in 1..(Len(raw) - 1) : raw[i] = "?" /\ raw[i + 1] = "?"})

\* What each decoder gave, against a split at the first "??" of the raw value.
SplitAtFirst(raw) ==
    /\ last.op = "draw" =>
          /\ ~res.raised
          /\ res.formatting = IF SepAt(raw) = 0 THEN None ELSE BeforeFirst(raw)
          /\ res.content = IF SepAt(raw) = 0 THEN raw ELSE AfterFirst(raw)
    /\ last.op = "v1_get_content" =>
          res.content = IF SepAt(raw) = 0 THEN raw ELSE AfterFirst(raw)
    /\ last.op = "v2_get_content" =>
          res = PyInt(IF SepAt(raw) = 0 THEN raw ELSE AfterFirst(raw))

\* C20: for every raw value, several "??" included, draw's decoding gives the
\* text before the first "??" as formatting and everything after it as content
\* and raises nothing, (None, raw) when there is no "??"; the get_content of
\* both rules takes the same content.
C20_DecodeAtFirstSeparator ==
    last.op # NoOp => SplitAtFirst(get(last.data, last.cursor))

\* On raw values with at most one place where a "??" starts, the three decoders
\* do split at it.
DecodersSplitOneSeparator ==
    (last.op # NoOp /\ Separators(get(last.data, last.cursor)) <= 1) =>
        SplitAtFirst(get(last.data, last.cursor))

\* ------------------------------------------------------------- claims on colours
\* A well-formed directive of a kind at place i of a text: the kind's letter,
\* "g(", and three runs of digits ended by ",", "," and ")".  Its colour.
IsRun(s, a, b) == a <= b /\ \A j \in a..b : s[j] \in Digits

\* The places b after a where s[a..b-1] is a run of digits and s[b] is c.
RunEnds(s, a, c) == {b \in (a + 1)..Len(s) : IsRun(s, a, b - 1) /\ s[b] = c}

WellFormed(kind, s, i) ==
    /\ i + 2 <= Len(s)
    /\ s[i] = kind /\ s[i + 1] = "g" /\ s[i + 2] = "("
    /\ \E e1 \in RunEnds(s, i + 3, ",") :
          \E e2 \in RunEnds(s, e1 + 1, ",") : RunEnds(s, e2 + 1, ")") # {}

ColorOf(s, i) ==
    LET e1 == CHOOSE e \in RunEnds(s, i + 3, ",") : TRUE
        e2 == CHOOSE e \in RunEnds(s, e1 + 1, ",") : TRUE
        e3 == CHOOSE e \in RunEnds(s, e2 + 1, ")") : TRUE
    IN  <<PyInt(SubSeq(s, i + 3, e1 - 1)).val,
          PyInt(SubSeq(s, e1 + 1, e2 - 1)).val,
          PyInt(SubSeq(s, e2 + 1, e3 - 1)).val>>

DirectivesOf(kind, s) == {i \in 1..Len(s) : WellFormed(kind, s, i)}

\* The formatting of the cell that was drawn: the text before its "??".
DrawnFormatting ==
    LET raw == get(last.data, last.cursor)
    IN  IF SepAt(raw) = 0 THEN None ELSE BeforeFirst(raw)

\* The colours drawn are, for each kind, the default when the formatting is
\* absent or holds no well-formed directive of the kind, and else the colour of
\* the directive that pick selects among the places of the well-formed ones.
ColoursPickedBy(pick(_)) ==
    LET f == DrawnFormatting
        colour(kind, default) ==
            IF f = None \/ DirectivesOf(kind, f) = {} THEN default
            ELSE ColorOf(f, pick(DirectivesOf(kind, f)))
    IN  /\ ~res.raised
        /\ res.bg_color = colour("b", None)
        /\ res.fg_color = colour("f", <<0, 0, 0>>)

\* C21 as claimed: the colour of a kind is that of the first well-formed
\* directive of the kind in the formatting, bg is absent and fg is (0,0,0) when
\* none matches, and nothing raises.
C21_FirstDirective ==
    last.op = "draw_text" => ColoursPickedBy(SetMin)

\* C21 as amended: the colour of a kind is that of the last well-formed
\* directive of the kind in the formatting, bg is absent and fg is (0,0,0) when
\* none matches, and nothing raises.
C21_LastDirective ==
    last.op = "draw_text" => ColoursPickedBy(SetMax)

\* Two well-formed bg directives of different colours after a malformed one,
\* and no fg directive.
C21_Witness ==
    /\ last.op = "draw_text"
    /\ DrawnFormatting # None
    /\ Cardinality(DirectivesOf("b", DrawnFormatting)) = 2
    /\ DirectivesOf("b", DrawnFormatting) # {1}
    /\ 1 \notin DirectivesOf("b", DrawnFormatting)
    /\ DirectivesOf("f", DrawnFormatting) = {}
    /\ res.bg_color \in {<<1, 2, 3>>, <<40, 5, 6>>}
    /\ res.bg_color # ColorOf(DrawnFormatting, SetMin(DirectivesOf("b", DrawnFormatting)))
    /\ res.fg_color = <<0, 0, 0>>

\* ------------------------------------------------------------- claims on cursor and mark objects
\* C22: the Spreadsheet's cursor and mark objects are its own: they are two
\* objects, the caller holds neither, so that assigning to row or col of a Cell
\* the caller got from get_cursor or get_mark, or passed to move_cursor or
\* move_mark, changes neither cursor, mark nor bounding box; a move of one of
\* cursor and mark leaves the other as it was.
C22_IndependentCopies ==
    /\ heap.cursor # heap.mark
    /\ heap.cursor \notin heap.held
    /\ heap.mark \notin heap.held
    /\ cursor = Deref(heap, heap.cursor)
    /\ mark = Deref(heap, heap.mark)
    /\ last.op = "mutate" =>
          /\ cursor = last.cursor
          /\ mark = last.mark
          /\ get_bounding_box(cursor, mark) = get_bounding_box(last.cursor, last.mark)
    /\ last.op = "move_cursor" =>
          cursor = Deref(last.heap, last.ref) /\ mark = last.mark
    /\ last.op = "move_mark" =>
          mark = Deref(last.heap, last.ref) /\ cursor = last.cursor
    /\ last.op \in {"get_cursor", "get_mark", "Cell"} =>
          cursor = last.cursor /\ mark = last.mark

\* The caller changed a Cell it had passed to both move_cursor and move_mark:
\* cursor and mark were equal to it and to each other before, and still are
\* equal to each other.
C22_Witness ==
    /\ last.op = "mutate"
    /\ Deref(last.heap, last.ref) = last.cursor
    /\ last.cursor = last.mark
    /\ last.cursor # Cell(0, 0)
    /\ Deref(heap, last.ref) # cursor
    /\ cursor = mark

\* ------------------------------------------------------------- generations
\* Sheets for repeated evolve-selection steps: a 2 by 2 block of live cells, or
\* one live cell, at the corner of the grid or one cell inside it, selected with
\* the cells around it.  The live cells hold texts Variant B reads as 1; the
\* last cell of the selection may hold a stored "0".
LiveVals == {<<"1">>, LiveTag}

BlockAt(o) ==
    {Cell(o.row, o.col), Cell(o.row, o.col + 1),
     Cell(o.row + 1, o.col), Cell(o.row + 1, o.col + 1)}

\* The corners of the selection around a pattern of n by n cells at o.
RingMin(o) == Cell(SetMax({0, o.row - 1}), SetMax({0, o.col - 1}))
RingMax(o, n) == Cell(o.row + n, o.col + n)

RECURSIVE set_all(_, _, _)
set_all(d, cells, val) ==
    IF cells = {} THEN d
    ELSE LET p == CHOOSE q \in cells : TRUE
         IN  set_all(set(d, p, val[p]), cells \ {p}, val)

\* The pattern drawn: where it is and which it is.
Pattern(o, kind) == [cell |-> o, kind |-> kind, raised |-> FALSE]

InitLife ==
    /\ \E o \in {Cell(0, 0), Cell(1, 1)}, kind \in {"block", "single"} :
          LET live == IF kind = "block" THEN BlockAt(o) ELSE {o}
              n == IF kind = "block" THEN 2 ELSE 1
              corners == {RingMin(o), RingMax(o, n),
                          Cell(RingMin(o).row, RingMax(o, n).col),
                          Cell(RingMax(o, n).row, RingMin(o).col)}
          IN  /\ res = Pattern(o, kind)
              /\ \E val \in [live -> LiveVals], zero \in {{}, {RingMax(o, n)}} :
                    /\ data = set_all(set_all(EmptyData, live, val), zero,
                                      [p \in zero |-> <<"0">>])
              /\ \E c \in corners, m \in corners :
                    /\ Box(c, m) = Box(RingMin(o), RingMax(o, n))
                    /\ cursor = c
                    /\ mark = m
    /\ toggle_input_box = FALSE
    /\ input_box_contents = <<>>
    /\ raised = FALSE
    /\ steps = 0
    /\ written = Stored(data)
    /\ heap = InitHeap
    /\ last = [op |-> NoOp, shift |-> FALSE, data |-> data, cursor |-> cursor,
               mark |-> mark, toggle_input_box |-> FALSE,
               input_box_contents |-> <<>>]

\* K_SPACE after K_SPACE.
NextLife == \E shift \in BOOLEAN : KeyDown("K_SPACE", shift)

SpecLife == InitLife /\ [][NextLife]_vars

\* ------------------------------------------------------------- claims on generations
\* C23: on a sheet whose live cells are a 2 by 2 block, selected with the ring
\* around it, after any number of evolve-selection steps the four cells of the
\* block decode to 1 and every other cell of the selection is absent; a live
\* cell without live neighbours is absent after one step.
C23_StillLife ==
    steps >= 1 =>
        /\ ~raised
        /\ res.kind = "block" =>
              \A p \in Box(cursor, mark) :
                  IF p \in BlockAt(res.cell)
                  THEN get(data, p) # None /\ DecodedState(data, p) = 1
                  ELSE get(data, p) = None
        /\ res.kind = "single" =>
              \A p \in Box(cursor, mark) : get(data, p) = None

\* The third generation of a block one cell inside the grid, whose ring of 12
\* cells is selected with it.
C23_Witness ==
    /\ steps >= 3
    /\ res.kind = "block"
    /\ res.cell = Cell(1, 1)
    /\ Cardinality(Box(cursor, mark)) = 16
    /\ Stored(data) = BlockAt(res.cell)
    /\ last.op = "K_SPACE"
    /\ last.data = data


\* ------------------------------------------------------------- evolve commands
\* Sheets of live and empty cells on two rows of three, at most one of them
\* holding a text that is no integer, with a selection among these cells.
EvolveCells == {Cell(r, c) : r \in {0, 1}, c \in {0, 1, 2}}
FaultVals == {<<>>, <<"x">>}

InitEvolve ==
    /\ \E live \in SUBSET EvolveCells, fault \in SUBSET EvolveCells,
          v \in FaultVals :
          /\ Cardinality(fault) <= 1
          /\ fault \cap live = {}
          /\ data = set_all(set_all(EmptyData, live, [p \in live |-> <<"1">>]),
                            fault, [p \in fault |-> v])
    /\ cursor \in EvolveCells
    /\ mark \in {Cell(0, 0), Cell(0, 1)}
    /\ toggle_input_box = FALSE
    /\ input_box_contents = <<>>
    /\ raised = FALSE
    /\ steps = 0
    /\ written = Stored(data)
    /\ res = Returned(Cell(0, 0), None)
    /\ last = [op |-> NoOp, shift |-> FALSE, data |-> data, cursor |-> cursor,
               mark |-> mark, toggle_input_box |-> FALSE,
               input_box_contents |-> <<>>]
    /\ heap = InitHeap

NextEvolve == \E shift \in BOOLEAN : KeyDown("K_SPACE", shift)

SpecEvolve == InitEvolve /\ [][NextEvolve]_vars

\* ------------------------------------------------------------- claims on evolve commands
\* The last event was a K_SPACE outside edit mode.
EvolveCommand == last.op = "K_SPACE" /\ ~last.toggle_input_box

\* The envelope of the last event, and the envelope with the cells next to it.
Envelope == Box(last.cursor, last.mark)
EnvelopeAndFrontier == Envelope \cup UNION {Moore(p) : p \in Envelope}

\* C24: an evolve-selection command raises exactly when the Variant B
\* evaluation of some position of the envelope raises, which is when a cell of
\* the envelope or of its one-cell frontier holds a text that is no integer;
\* the command that raised has modified no cell and has left cursor and mark
\* as they were, so that the sheet changes only if every evaluation succeeded.
C24_AllOrNothing ==
    EvolveCommand =>
        /\ raised <=> \E p \in Envelope : iterate_function_v2(p, last.data).raised
        /\ raised <=> \E q \in EnvelopeAndFrontier :
                          get(last.data, q) # None /\ ~Parseable(get(last.data, q))
        /\ raised => data = last.data /\ cursor = last.cursor /\ mark = last.mark
        /\ data # last.data =>
              \A p \in Envelope : ~iterate_function_v2(p, last.data).raised

\* A command that raised on a later cell of the envelope after the evaluation
\* of an earlier cell had returned a value other than the one the cell holds.
C24_Witness ==
    /\ EvolveCommand
    /\ raised
    /\ \E p \in Envelope, q \in Envelope :
          /\ p.row < q.row \/ (p.row = q.row /\ p.col < q.col)
          /\ ~iterate_function_v2(p, last.data).raised
          /\ iterate_function_v2(p, last.data).val # get(last.data, p)
          /\ iterate_function_v2(q, last.data).raised
    /\ data = last.data

\* The cells of the grid and one ring around it.
Surroundings == {Cell(r, c) : r \in -1..(MaxRow + 1), c \in -1..(MaxCol + 1)}

\* C25: an evolve-selection command leaves every position outside the
\* bounding box with the value it had, and leaves cursor and mark as they were;
\* no cell outside the box is stored or cleared by it.
C25_WritesInsideEnvelope ==
    EvolveCommand =>
        /\ \A q \in (Surroundings \cup Stored(data) \cup Stored(last.data)) \ Envelope :
              get(data, q) = get(last.data, q)
        /\ Stored(data) \ Envelope = Stored(last.data) \ Envelope
        /\ cursor = last.cursor
        /\ mark = last.mark

\* A command after which a cell of the box is live that has fewer than three
\* live neighbours inside the box, next to a live cell outside the box that
\* the rule would have cleared and that holds its value still.
C25_Witness ==
    /\ Evolved
    /\ \E p \in Envelope :
          /\ get(last.data, p) = None
          /\ get(data, p) = LiveTag
          /\ SumStates(last.data, Moore(p) \cap Envelope) < 3
          /\ \E q \in Moore(p) \ Envelope :
                /\ get(last.data, q) # None
                /\ iterate_function_v2(q, last.data).val = None
                /\ get(data, q) = get(last.data, q)


\* ------------------------------------------------------------- fill-forward generations
\* One generation of Variant A: the rule is evaluated for every listed cell on
\* the sheet as it is, then every result is set, as the K_SPACE branch does
\* with Variant B.
v1_generation(d, cells) ==
    LET result == [i \in 1..Len(cells) |-> iterate_function_v1(cells[i], d)]
    IN  IF \E i \in 1..Len(cells) : result[i].raised
        THEN [data |-> d, raised |-> TRUE]
        ELSE [data |-> apply_result(d, result), raised |-> FALSE]

\* The value each stored cell of d holds.
Values(d) == [p \in Stored(d) |-> d[p.row][p.col]]

\* The cells evaluated last, and the value each cell held when it was first
\* seen stored.
Filled(cells, first) == [cells |-> cells, first |-> first, raised |-> FALSE]

\* The cells of the generations: three rows of three.
FillCols == {0, 1, 2}
FillCells == {Cell(r, c) : r \in {0, 1, 2}, c \in FillCols}

\* A first row of cells holding "0", "1" or nothing, over a cell that is empty
\* or occupied by a typed text or a tag.
InitFill ==
    /\ \E row0 \in [FillCols -> {None, <<"0">>, <<"1">>}],
          v \in {None, <<>>, <<"1">>, LiveTag} :
          data = set(set_all(EmptyData, {Cell(0, c) : c \in FillCols},
                             [p \in {Cell(0, c) : c \in FillCols} |-> row0[p.col]]),
                     Cell(1, 1), v)
    /\ cursor = Cell(0, 0)
    /\ mark = Cell(0, 0)
    /\ toggle_input_box = FALSE
    /\ input_box_contents = <<>>
    /\ raised = FALSE
    /\ steps = 0
    /\ written = Stored(data)
    /\ res = Filled({}, Values(data))
    /\ last = [op |-> NoOp, shift |-> FALSE, data |-> data, cursor |-> cursor,
               mark |-> mark, toggle_input_box |-> FALSE,
               input_box_contents |-> <<>>]
    /\ heap = InitHeap

\* The lists of cells of the generations: the rectangles from a corner in the
\* first column or the middle down to a cell, whole or without the middle cell.
PositionLists ==
    LET outside(c) == c # Cell(1, 1)
        whole == {get_selected_cells(EmptyData, a, b, TRUE) :
                    a \in {Cell(0, 0), Cell(1, 0), Cell(1, 1), Cell(2, 0)},
                    b \in FillCells}
    IN  whole \cup {SelectSeq(cells, outside) : cells \in whole}

\* A generation over a list of cells.
Generation(cells) ==
    /\ ~raised
    /\ steps < MaxGens
    /\ \E g \in {v1_generation(data, cells)} :
          /\ data' = g.data
          /\ raised' = g.raised
          /\ res' = Filled(Listed(cells),
                           [p \in DOMAIN res.first \cup Stored(g.data) |->
                               IF p \in DOMAIN res.first THEN res.first[p]
                               ELSE g.data[p.row][p.col]])
    /\ steps' = steps + 1
    /\ last' = Before("v1_generation", FALSE)
    /\ written' = written \cup Stored(data')
    /\ UNCHANGED <<cursor, mark, toggle_input_box, input_box_contents, heap>>

NextFill == \E cells \in PositionLists : Generation(cells)

SpecFill == InitFill /\ [][NextFill]_vars

\* ------------------------------------------------------------- claims on fill-forward generations
\* C27: a generation of Variant A, evaluated on one sheet and applied with set,
\* leaves every cell that was occupied with exactly its value; over the
\* generations every cell holds the value it was first seen with, and no cell
\* that was ever stored is empty again.
C27_FillsForward ==
    /\ last.op = "v1_generation" =>
          \A p \in Stored(last.data) :
              p \in Stored(data) /\ get(data, p) = get(last.data, p)
    /\ \A p \in DOMAIN res.first :
          p \in Stored(data) /\ data[p.row][p.col] = res.first[p]
    /\ written = Stored(data)

\* A second or later generation that evaluated a cell filled by an earlier
\* generation, for which the rule gives another value once the cell is empty.
C27_Witness ==
    /\ last.op = "v1_generation"
    /\ steps >= 2
    /\ \E p \in res.cells \cap Stored(last.data) :
          /\ p.row >= 1
          /\ p # Cell(1, 1)
          /\ iterate_function_v1(p, delete(last.data, p)).val # get(last.data, p)
          /\ get(data, p) = get(last.data, p)

====
